---- MODULE Spec2Model ----
(***************************************************************************)
(* DuCTTLearningController (NTRTsim, dev/axydes/DuCTT/controllers):        *)
(* parameter decoding, sine actuation, the touch-sensor lock machine and   *)
(* the episode life cycle onSetup / onStep / onTeardown.                   *)
(*                                                                         *)
(* Doubles are fixed-point integers: a value v stands for v / Unit.        *)
(* Vectors and arrays are functions on 0..n-1, as the C++ indexes them.    *)
(***************************************************************************)
EXTENDS Integers, Sequences, FiniteSets, TLC

\* ------------------------------------------------------------ constants
\* Fixed-point denominator: 1e-4, the resolution of the perturbation that
\* readManualParams adds (0.01 * ((rand() % 100) / 100)).
Unit == 10000

N_PARAMS == 4
nClusters == 2
musclesPerCluster == 4
nPrisms == 2
nActions == nClusters + nPrisms

\* The ranges of transformActions are in 1/Milli; a decoded channel value
\* (a raw entry times a range) is in 1/(Unit*Milli).
Milli == 1000

\* 3.142, in 1/Milli
M_PI == 3142

\* isLocked: maxCount = m_dHistorisisSeconds*1000 ("1000Hz timestep")
TickRate == 1000

\* onStep: if (m_totalTime < 3)
WarmupTime == 3

\* constructor: m_dHistorisisSeconds(0.5), m_bIgnoreTouchSensors(true)
InitialHistorisisSeconds == Unit \div 2
InitialIgnoreTouchSensors == TRUE

\* --------------------------------------------------------------- bounds
\* an episode is stepped until m_totalTime reaches MaxTime
MaxTime == 4
\* number of episodes (onSetup .. onTeardown) run on the one controller
MaxEpisodes == 2
\* the optimizer's vector has 4*nActions .. 4*nActions + MaxExtra entries
MaxExtra == 2
\* a touch-sensor group holds MaxSensors sensors
MaxSensors == 1
\* an actuator's history holds up to MaxHist samples
MaxHist == 3
\* the subject has up to MaxActuators cable actuators
MaxActuators == 2

\* --------------------------------------------------------------- vectors
Size(v) == Cardinality(DOMAIN v)

\* ---------------------------------------------------- transformActions
mins ==
    [j \in 0..(N_PARAMS - 1) |->
        CASE j = 0 -> 0
          [] j = 1 -> (3 * Milli) \div 10
          [] j = 2 -> (-1) * M_PI
          [] j = 3 -> 0]

maxes ==
    [j \in 0..(N_PARAMS - 1) |->
        CASE j = 0 -> 40 * Milli
          [] j = 1 -> 20 * Milli
          [] j = 2 -> M_PI
          [] j = 3 -> 40 * Milli]

ranges == [j \in 0..(N_PARAMS - 1) |-> maxes[j] - mins[j]]

\* (mutant) scaled by the maximum instead of the range
Scale_ByMax(p, j) == p * maxes[j] + mins[j] * Unit

\* params[k]*(ranges[j])+mins[j], in 1/(Unit*Milli)
Scale(p, j) == p * ranges[j] + mins[j] * Unit

\* the slot of params read for parameter j of channel i
ChannelSlot(i, j) == i * N_PARAMS + j

\* (mutant) the channel slots counted from the end of the vector
NewActions_FromEnd(params) ==
    [i \in 0..(nActions - 1) |->
        [j \in 0..(N_PARAMS - 1) |->
            Scale(params[Size(params) - nActions * N_PARAMS + ChannelSlot(i, j)], j)]]

NewActions(params) ==
    [i \in 0..(nActions - 1) |->
        [j \in 0..(N_PARAMS - 1) |-> Scale(params[ChannelSlot(i, j)], j)]]

\* if (params.size()%4 != 0)
HasFlags(params) == Size(params) % 4 # 0

\* touchOffset = actions[0].size() - (nActions*N_PARAMS); params[params.size()-touchOffset]
TouchSlot(actions0, params) ==
    Size(params) - (Size(actions0) - (nActions * N_PARAMS))

\* offset = params.size() - (nActions*N_PARAMS + 1); params[params.size()-offset]
HistorisisSlot(params) ==
    Size(params) - (Size(params) - (nActions * N_PARAMS + 1))

\* m_bIgnoreTouchSensors = touchParam < 0.5
IgnoreFromParam(touchParam) == 2 * touchParam < Unit

\* params[..]*historisisRange + minHistorisis, range 2.0, min 0.0
HistorisisFromParam(p) == p * 2 + 0

\* every slot index of params that transformActions reads
SlotsRead(actions0, params) ==
    { ChannelSlot(i, j) : i \in 0..(nActions - 1), j \in 0..(N_PARAMS - 1) }
    \cup (IF HasFlags(params)
          THEN {TouchSlot(actions0, params), HistorisisSlot(params)}
          ELSE {})

\* The whole of transformActions on the vector `params` it decodes
\* (actions[0], or the manual parameters); g1 and g2 are what a read past
\* the end of params yields.
TransformActions(actions0, params, ignore, historisis, g1, g2) ==
    LET ts == TouchSlot(actions0, params)
        hs == HistorisisSlot(params)
        touchParam == IF ts \in DOMAIN params THEN params[ts] ELSE g1
        histParam == IF hs \in DOMAIN params THEN params[hs] ELSE g2
    IN  [newActions |-> NewActions(params),
         ignore |-> IF HasFlags(params) THEN IgnoreFromParam(touchParam) ELSE ignore,
         historisis |-> IF HasFlags(params)
                        THEN HistorisisFromParam(histParam)
                        ELSE historisis]

\* ---------------------------------------------------- readManualParams
\* A cell of the selected line: text that atof reads as val, or text that
\* is no number (atof gives 0.0).
Cell(v) == [ok |-> TRUE, val |-> v]
BadCell == [ok |-> FALSE, val |-> 0]

Atof(cell) == IF cell.ok THEN cell.val ELSE 0

numParams == nActions * N_PARAMS + 2

\* while(getline(lineStream,cell,',') && iCell <= numParams): the number of
\* cells stored, each at result[iCell]
CellsStored(line) ==
    IF Size(line) <= numParams + 1 THEN Size(line) ELSE numParams + 1

\* (0.01 * seed) - 0.005 with seed = (rand() % 100) / 100, for rand() % 100 = k
Tweak(k) == k - 50

\* result, for the cells of the selected line (none when the file or the
\* line is absent) and the draws seeds[i] = rand() % 100 of the tweak loop.
\* A store at result[numParams] is past the end and leaves result as it is.
ReadManualParams(line, seeds) ==
    [i \in 0..(numParams - 1) |->
        (IF i < CellsStored(line) THEN Atof(line[i]) ELSE Unit) + Tweak(seeds[i])]

\* --------------------------------------------------------- displacement
\* Positions are in 1/Milli: a coordinate c stands for c / Milli.
Abs(x) == IF x < 0 THEN -x ELSE x

\* the largest r in lo..hi with r*r <= n
RECURSIVE SqrtBetween(_, _, _)
SqrtBetween(lo, hi, n) ==
    IF lo >= hi THEN lo
    ELSE LET mid == (lo + hi + 1) \div 2
         IN  IF mid * mid <= n THEN SqrtBetween(mid, hi, n)
             ELSE SqrtBetween(lo, mid - 1, n)

\* sqrt, rounded down to 1/Milli
Sqrt(n) == SqrtBetween(0, 40 * Milli, n)

\* sqrt((newX-oldX)^2 + (newY-oldY)^2 + (newZ-oldZ)^2)
DistanceMoved(old, new) ==
    Sqrt((new[1] - old[1]) * (new[1] - old[1])
         + (new[2] - old[2]) * (new[2] - old[2])
         + (new[3] - old[3]) * (new[3] - old[3]))

\* (mutant) the default branch takes the magnitude as cases 0 and 2 do
Displacement_AbsY(axis, old, new) ==
    CASE axis = 0 -> Abs(new[1] - old[1])
      [] axis = 2 -> Abs(new[3] - old[3])
      [] axis = 3 -> DistanceMoved(old, new)
      [] OTHER -> Abs(new[2] - old[2])

\* switch(m_axis): old is initPosition, new is subject.getCOM()
Displacement(axis, old, new) ==
    CASE axis = 0 -> Abs(new[1] - old[1])
      [] axis = 2 -> Abs(new[3] - old[3])
      [] axis = 3 -> DistanceMoved(old, new)
      [] OTHER -> new[2] - old[2]

\* ----------------------------------------------------- totalEnergySpent
\* An actuator's history: tensionHistory and restLengths, logged together.
\* (mutant) the speed is not clamped
MotorSpeed_Unclamped(previousLength, currentLength) ==
    currentLength - previousLength

\* motorSpeed = currentLength-previousLength; if (motorSpeed > 0) motorSpeed = 0
MotorSpeed(previousLength, currentLength) ==
    IF currentLength - previousLength > 0 THEN 0
    ELSE currentLength - previousLength

\* workDone = previousTension * motorSpeed, at history index j >= 1
WorkDone(stringHist, j) ==
    stringHist.tensionHistory[j - 1]
      * MotorSpeed(stringHist.restLengths[j - 1], stringHist.restLengths[j])

\* for(int j=1; j<stringHist.tensionHistory.size(); j++)
RECURSIVE HistoryLoop(_, _, _)
HistoryLoop(stringHist, j, total) ==
    IF j >= Size(stringHist.tensionHistory) THEN total
    ELSE HistoryLoop(stringHist, j + 1, total + WorkDone(stringHist, j))

\* for(int i=0; i<tmpStrings.size(); i++)
RECURSIVE StringsLoop(_, _, _)
StringsLoop(tmpStrings, i, total) ==
    IF i >= Size(tmpStrings) THEN total
    ELSE StringsLoop(tmpStrings, i + 1, HistoryLoop(tmpStrings[i], 1, total))

TotalEnergySpent(tmpStrings) == StringsLoop(tmpStrings, 0, 0)

\* ------------------------------------------------------------- scores
\* (mutant) the computed displacement is reported whatever the flag
Scores_NoSentinel(badRun, distance, energySpent) ==
    <<distance, energySpent>>

\* scores[0]: distance, or -1 (in 1/Milli) on a bad run; scores[1]: energySpent
Scores(badRun, distance, energySpent) ==
    <<IF ~badRun THEN distance ELSE (-1) * Milli, energySpent>>

\* ------------------------------------------------------------- state
VARIABLES
    m_usingManualParams,  \* constructor argument
    m_axis,               \* constructor argument
    pc,                   \* "idle" (constructed or torn down), "running" (set up)
    episode,              \* number of onSetup calls so far
    m_totalTime,
    m_bBadRun,
    m_bIgnoreTouchSensors,
    m_bRecordedStart,
    bottomCounter,
    topCounter,
    m_dHistorisisSeconds,
    m_bBottomPaused,
    m_bTopPaused,
    maxCount,             \* isLocked's function-static: [set, val]
    m_actions,
    amplitude,
    angularFrequency,
    phaseChange,
    dcOffset,
    raw,                  \* the vector the optimizer returned at the last onSetup
    decoded,              \* the vector transformActions decoded (params)
    selectedLine,         \* the cells of the line readManualParams split last
    lastCall,             \* the last call made on the controller and how it ended
    cmds,                 \* the commands that call dispatched to the substrate, in order
    lockEvals,            \* the isLocked evaluations of that call, in order
    faults,               \* the accesses past the end of a vector made by that call
    initPosition,
    run,                  \* per joint: the observed history of its signals
    subjectCOM,           \* the centre of mass that call read last (getCOM)
    muscles,              \* the actuator histories that call read (getHistory)
    adapter               \* the calls that call made on the learning adapter, in order

ctrl ==
    <<m_axis, m_totalTime, m_bBadRun, m_bIgnoreTouchSensors, m_bRecordedStart,
      bottomCounter, topCounter, m_dHistorisisSeconds, m_bBottomPaused,
      m_bTopPaused, maxCount, m_actions, amplitude, angularFrequency,
      phaseChange, dcOffset, initPosition>>

vars ==
    <<m_usingManualParams, pc, episode, ctrl, raw, decoded, selectedLine, lastCall, cmds,
      lockEvals, faults, run, subjectCOM, muscles, adapter>>

\* ------------------------------------------------------ learning adapter
\* m_evolutionAdapter.initialize(...), .step(dt, state), .endEpisode(scores)
AdapterCall(op, scores) == [op |-> op, scores |-> scores]

\* ------------------------------------------------------- applyActions
\* a slot of a table allocated by new double[nActions] and not yet written
Indeterminate == (-100) * Unit * Milli

\* size_t idx = prism + clusters.size()-1
PrismIdx(prism) == prism + nClusters - 1

\* the channel indices applyActions writes: clusters, then prisms
IndicesWritten ==
    (0..(nClusters - 1)) \cup { PrismIdx(p) : p \in 0..(nPrisms - 1) }

\* column j of actions as written into a fresh table
ApplyColumn(actions, j) ==
    [idx \in 0..(nActions - 1) |->
        IF idx \in IndicesWritten THEN actions[idx][j] ELSE Indeterminate]

FreshTable == [idx \in 0..(nActions - 1) |-> Indeterminate]

\* ----------------------------------------------------------- isLocked
ShouldPause(touchSensors) == \A i \in DOMAIN touchSensors : touchSensors[i]

LockState ==
    [bottomCounter |-> bottomCounter, topCounter |-> topCounter,
     m_bBottomPaused |-> m_bBottomPaused, m_bTopPaused |-> m_bTopPaused,
     maxCount |-> maxCount]

\* static const double maxCount = m_dHistorisisSeconds*1000: set by the
\* first call, kept by every later one
MaxCountInit(mc) ==
    IF mc.set THEN mc ELSE [set |-> TRUE, val |-> m_dHistorisisSeconds * TickRate]

\* (mutant) the counter follows the pause signal alone
Counting_PauseOnly(sPause, sUnPause, paused) == sPause

\* the counter is incremented on this evaluation
Counting(sPause, sUnPause, paused) ==
    (sPause /\ ~paused) \/ (sUnPause /\ paused)

\* (mutant) counter >= maxCount
Exceeds_OrEqual(counter, mcVal) == counter * Unit >= mcVal

\* counter > maxCount, maxCount in 1/Unit
Exceeds(counter, mcVal) == counter * Unit > mcVal

\* (mutant) the pause signal is not required
Fires_NoSignal(sPause, counter, mcVal) == Exceeds(counter, mcVal)

\* a transition fires on this evaluation; counter is the incremented counter
Fires(sPause, counter, mcVal) == sPause /\ Exceeds(counter, mcVal)

\* (mutant) one counter and one flag for both joints
StoreLock_Shared(L, isTop, counter, paused, mc) ==
    [L EXCEPT !.topCounter = counter, !.m_bTopPaused = paused,
              !.bottomCounter = counter, !.m_bBottomPaused = paused,
              !.maxCount = mc]

\* the members a call for the joint writes: topCounter and m_bTopPaused when
\* isTop, bottomCounter and m_bBottomPaused otherwise
StoreLock(L, isTop, counter, paused, mc) ==
    IF isTop
    THEN [L EXCEPT !.topCounter = counter, !.m_bTopPaused = paused,
                   !.maxCount = mc]
    ELSE [L EXCEPT !.bottomCounter = counter, !.m_bBottomPaused = paused,
                   !.maxCount = mc]

\* One call isLocked(subject, isTop) from lock state L, the touch groups
\* reading topTouch and bottomTouch: the lock state after it (lock), the
\* returned value (ret) and what the call saw.
IsLocked(L, isTop, topTouch, bottomTouch) ==
    LET mc == MaxCountInit(L.maxCount)
        sPause == IF isTop THEN ShouldPause(topTouch) ELSE ShouldPause(bottomTouch)
        sUnPause == IF isTop THEN ShouldPause(bottomTouch) ELSE ShouldPause(topTouch)
        paused == IF isTop THEN L.m_bTopPaused ELSE L.m_bBottomPaused
        counter0 == IF isTop THEN L.topCounter ELSE L.bottomCounter
        counter1 == IF Counting(sPause, sUnPause, paused) THEN counter0 + 1 ELSE counter0
        fires == Fires(sPause, counter1, mc.val)
        paused2 == IF fires THEN ~paused ELSE paused
        counter2 == IF fires THEN 0 ELSE counter1
        ret == fires /\ ~paused
        lock2 == StoreLock(L, isTop, counter2, paused2, mc)
    IN  [lock |-> lock2,
         ret |-> ret,
         eval |-> [isTop |-> isTop, sPause |-> sPause, sUnPause |-> sUnPause,
                   before |-> L, after |-> lock2, fires |-> fires, ret |-> ret]]

\* -------------------------------------------- observed signal history
\* Per joint: n = the consecutive evaluations, counted from one that found
\* the joint UNPAUSED with counter 0, that all had the pause signal true;
\* v = those of them made with the joint PAUSED; u = those of v that also
\* had the unpause signal true; held = the evaluations since the joint's last
\* transition (or construction) on which the counting condition held;
\* streak = the consecutive latest ones of held.
NoRun == [n |-> 0, v |-> 0, u |-> 0, held |-> 0, streak |-> 0]

PausedIn(L, isTop) == IF isTop THEN L.m_bTopPaused ELSE L.m_bBottomPaused
CounterIn(L, isTop) == IF isTop THEN L.topCounter ELSE L.bottomCounter

Observe(g, e) ==
    LET paused0 == PausedIn(e.before, e.isTop)
        counter0 == CounterIn(e.before, e.isTop)
        n1 == IF ~e.sPause THEN 0
              ELSE IF ~paused0 /\ counter0 = 0 THEN 1
              ELSE IF g.n > 0 THEN g.n + 1 ELSE 0
        inPaused == n1 > 1 /\ paused0
        counts == (e.sPause /\ ~paused0) \/ (e.sUnPause /\ paused0)
        streakAt == IF counts THEN g.streak + 1 ELSE 0
        heldAt == IF counts THEN g.held + 1 ELSE g.held
    IN  [run |-> [n |-> n1,
                  v |-> IF inPaused THEN g.v + 1 ELSE 0,
                  u |-> IF inPaused THEN g.u + (IF e.sUnPause THEN 1 ELSE 0) ELSE 0,
                  held |-> IF e.fires THEN 0 ELSE heldAt,
                  streak |-> IF e.fires THEN 0 ELSE streakAt],
         eval |-> [isTop |-> e.isTop, sPause |-> e.sPause, sUnPause |-> e.sUnPause,
                   before |-> e.before, after |-> e.after, fires |-> e.fires,
                   ret |-> e.ret, held |-> heldAt, streak |-> streakAt]]

\* ----------------------------------------------------------- commands
\* amplitude[idx] * sin(angularFrequency[idx] * m_totalTime + phase) + dcOffset[idx],
\* kept as the terms it is computed from
SineWave(idx, phase, t) ==
    [idx |-> idx, amplitude |-> amplitude[idx],
     angularFrequency |-> angularFrequency[idx], dcOffset |-> dcOffset[idx],
     phase |-> phase, t |-> t]

NoWave ==
    [idx |-> -1, amplitude |-> 0, angularFrequency |-> 0, dcOffset |-> 0,
     phase |-> 0, t |-> 0]

\* kind "muscle": target is the cluster (-1: all muscles), node the number of
\* muscles addressed;
\* kind "prism": target is the prism, 0 bottom, 1 top
Cmd(op, kind, target, node, wave) ==
    [op |-> op, kind |-> kind, target |-> target, node |-> node, wave |-> wave]

\* prisms[0] = getBottomPrismatic(), prisms[1] = getTopPrismatic();
\* isTop = (pPrism == subject.getTopPrismatic())
IsTopPrism(prism) == prism = 1

\* moveMotors: every muscle, then the bottom and the top prismatic
MoveMotors ==
    <<Cmd("moveMotors", "muscle", -1, 0, NoWave),
      Cmd("moveMotors", "prism", 0, 0, NoWave),
      Cmd("moveMotors", "prism", 1, 0, NoWave)>>

\* ------------------------------------------ setPreferredMuscleLengths
\* double phase = 0
ClusterStartPhase == 0

\* imp_controller->control(...) on each of the musclesPerCluster muscles of
\* the cluster, with the one newVelocity: node is their number
ClusterCmds(cluster, phase, t) ==
    <<Cmd("control", "muscle", cluster, musclesPerCluster,
          SineWave(cluster, phase, t))>>

RECURSIVE ClusterLoop(_, _, _, _)
ClusterLoop(cluster, phase, out, t) ==
    IF cluster >= nClusters THEN out
    ELSE ClusterLoop(cluster + 1, phase + phaseChange[cluster],
                     out \o ClusterCmds(cluster, phase, t), t)

SetPreferredMuscleLengths(t) == ClusterLoop(0, ClusterStartPhase, <<>>, t)

\* ------------------------------------------------ setPrismaticLengths
\* (mutant) the phase the cluster loop ended with
PrismStartPhase_Carried ==
    ClusterStartPhase + phaseChange[0] + phaseChange[nClusters - 1]

\* double phase = 0
PrismStartPhase == 0

\* (mutant) isLocked is called whatever the flag
ConsultsLock_Always(ignore) == TRUE

\* m_bIgnoreTouchSensors || ... : isLocked is called only when the left
\* operand is false
ConsultsLock(ignore) == ~ignore

\* if (m_bIgnoreTouchSensors || !isLocked(subject, isTop))
AppliesLength(ignore, locked) == ignore \/ ~locked

RECURSIVE PrismLoop(_, _, _, _, _)
PrismLoop(prism, acc, t, topTouch, bottomTouch) ==
    IF prism >= nPrisms THEN acc
    ELSE
      LET isTop == IsTopPrism(prism)
          idx == PrismIdx(prism)
          consult == ConsultsLock(m_bIgnoreTouchSensors)
          r == IsLocked(acc.lock, isTop, topTouch, bottomTouch)
          o == Observe(acc.run[isTop], r.eval)
          apply == AppliesLength(m_bIgnoreTouchSensors, r.ret)
          acc2 ==
            [lock |-> IF consult THEN r.lock ELSE acc.lock,
             evals |-> IF consult THEN Append(acc.evals, o.eval) ELSE acc.evals,
             run |-> IF consult THEN [acc.run EXCEPT ![isTop] = o.run] ELSE acc.run,
             cmds |-> IF apply
                      THEN Append(acc.cmds,
                                  Cmd("setPreferredLength", "prism", prism, 0,
                                      SineWave(idx, acc.phase, t)))
                      ELSE acc.cmds,
             phase |-> acc.phase + phaseChange[idx]]
      IN  PrismLoop(prism + 1, acc2, t, topTouch, bottomTouch)

SetPrismaticLengths(t, topTouch, bottomTouch) ==
    PrismLoop(0,
              [lock |-> LockState, evals |-> <<>>, run |-> run, cmds |-> <<>>,
               phase |-> PrismStartPhase],
              t, topTouch, bottomTouch)

\* ------------------------------------------------------------- inputs
Min(a, b) == IF a <= b THEN a ELSE b

\* the optimizer's vector: entries in [0,1]; "ramp" gives every channel slot
\* its own value
ChannelEntry(pattern, i) ==
    CASE pattern = "zeros" -> 0
      [] pattern = "ones" -> Unit
      [] pattern = "ramp" -> i * (Unit \div (nActions * N_PARAMS))

RawVector(len, pattern, f1, f2) ==
    [i \in 0..(len - 1) |->
        IF i < nActions * N_PARAMS THEN ChannelEntry(pattern, i)
        ELSE IF i = nActions * N_PARAMS THEN f1
        ELSE IF i = nActions * N_PARAMS + 1 THEN f2
        ELSE 0]

RawLens == (nActions * N_PARAMS)..(nActions * N_PARAMS + MaxExtra)

\* entries of the sensor-flag slot: just below and at 0.5
TouchEntries == {Unit \div 2 - 1, Unit \div 2}

\* entries of the hysteresis slot: 0 s and 0.001 s once doubled
HistorisisEntries == {0, 5}

Raws(patterns, hist) ==
    { RawVector(len, pat, f1, f2) :
        len \in RawLens, pat \in patterns, f1 \in TouchEntries, f2 \in hist }

\* what a read past the end of a vector may yield
PastEnd == {0, Unit}

\* the selected line of the manual parameter file, as cells
LineOf(n, f1, f2) ==
    [i \in 0..(n - 1) |->
        IF i = nActions * N_PARAMS THEN Cell(f1)
        ELSE IF i = nActions * N_PARAMS + 1 THEN Cell(f2)
        ELSE IF i = 1 THEN BadCell
        ELSE Cell(ChannelEntry("ramp", Min(i, nActions * N_PARAMS - 1)))]

SeedsOf(k) == [i \in 0..(numParams - 1) |-> k]

\* the touch-sensor groups' readings
SensorReadings == [0..(MaxSensors - 1) -> BOOLEAN]

\* centre-of-mass positions, in 1/Milli
Origin == <<0, 0, 0>>
Positions == { Origin, <<0, 5 * Milli, 0>>, <<3 * Milli, 0, (-4) * Milli>> }

\* btVector3 initPosition, not yet assigned
IndeterminatePosition == <<Indeterminate, Indeterminate, Indeterminate>>

\* no getCOM() in the call
NotRead == <<>>

\* the axis argument: x, y, z, 3-D, and one that is none of them
Axes == {0, 1, 2, 3, 7}

\* An actuator's logged history of len samples: the rest lengths shrink,
\* grow, or do both with a repeat; the tensions are all zero or grow.
RestLengthAt(shape, j) ==
    CASE shape = "down" -> 10 - 2 * j
      [] shape = "up" -> 10 + 2 * j
      [] shape = "mixed" -> IF j % 4 = 0 THEN 10
                            ELSE IF j % 4 = 3 THEN 12 ELSE 7

TensionAt(tens, j) ==
    CASE tens = "zero" -> 0
      [] tens = "grows" -> j + 1

History(len, shape, tens) ==
    [tensionHistory |-> [j \in 0..(len - 1) |-> TensionAt(tens, j)],
     restLengths |-> [j \in 0..(len - 1) |-> RestLengthAt(shape, j)]]

\* the shape of the actuator after one of that shape
NextShape(shape) ==
    CASE shape = "down" -> "up"
      [] shape = "up" -> "mixed"
      [] shape = "mixed" -> "down"

RECURSIVE ShapeOf(_, _)
ShapeOf(shape, i) == IF i = 0 THEN shape ELSE NextShape(ShapeOf(shape, i - 1))

\* subject.getAllMuscles(), each with its history: n actuators logged for
\* len samples, their shapes in turn from the first one's
Histories(n, len, shape, tens) ==
    [i \in 0..(n - 1) |-> History(len, ShapeOf(shape, i), tens)]

MuscleHistories ==
    { Histories(n, len, shape, tens) :
        n \in 0..MaxActuators, len \in 0..MaxHist,
        shape \in {"down", "up", "mixed"}, tens \in {"zero", "grows"} }

NoMuscles == <<>>

DtValues == {0, 1, 2}

\* -------------------------------------------------------------- Init
Init ==
    /\ m_usingManualParams \in BOOLEAN
    /\ m_axis \in Axes
    /\ pc = "idle"
    /\ episode = 0
    /\ m_totalTime = 0
    /\ m_bBadRun = FALSE
    /\ m_bIgnoreTouchSensors = InitialIgnoreTouchSensors
    /\ m_bRecordedStart = FALSE
    /\ bottomCounter = 0
    /\ topCounter = 0
    /\ m_dHistorisisSeconds = InitialHistorisisSeconds
    /\ m_bBottomPaused = FALSE
    /\ m_bTopPaused = FALSE
    /\ maxCount = [set |-> FALSE, val |-> 0]
    /\ m_actions = <<>>
    /\ amplitude = FreshTable
    /\ angularFrequency = FreshTable
    /\ phaseChange = FreshTable
    /\ dcOffset = FreshTable
    /\ initPosition = IndeterminatePosition
    /\ raw = <<>>
    /\ decoded = <<>>
    /\ selectedLine = <<>>
    /\ lastCall = [op |-> "constructor", dt |-> 0, threw |-> FALSE]
    /\ cmds = <<>>
    /\ lockEvals = <<>>
    /\ faults = {}
    /\ run = [isTop \in BOOLEAN |-> NoRun]
    /\ subjectCOM = NotRead
    /\ muscles = NoMuscles
    /\ adapter = <<>>

\* ------------------------------------------------------------ onSetup
SetupCmds ==
    <<Cmd("setControlInput", "muscle", -1, 0, NoWave),
      Cmd("setPreferredLengthMin", "prism", 0, 0, NoWave),
      Cmd("moveMotors", "prism", 0, 0, NoWave),
      Cmd("setPreferredLengthMin", "prism", 1, 0, NoWave),
      Cmd("moveMotors", "prism", 1, 0, NoWave)>>

\* m_evolutionAdapter.initialize(...), then m_actions = m_evolutionAdapter.step(dt,state)
SetupAdapterCalls == <<AdapterCall("initialize", <<>>), AdapterCall("step", <<>>)>>

OnSetup(actions0, line, seeds, g1, g2) ==
    /\ pc = "idle"
    /\ episode < MaxEpisodes
    /\ LET params == IF m_usingManualParams
                     THEN ReadManualParams(line, seeds)
                     ELSE actions0
           T == TransformActions(actions0, params, m_bIgnoreTouchSensors,
                                 m_dHistorisisSeconds, g1, g2)
       IN  /\ m_bIgnoreTouchSensors' = T.ignore
           /\ m_dHistorisisSeconds' = T.historisis
           /\ m_actions' = T.newActions
           /\ amplitude' = ApplyColumn(T.newActions, 0)
           /\ angularFrequency' = ApplyColumn(T.newActions, 1)
           /\ phaseChange' = ApplyColumn(T.newActions, 2)
           /\ dcOffset' = ApplyColumn(T.newActions, 3)
           /\ decoded' = params
           /\ selectedLine' = IF m_usingManualParams THEN line ELSE selectedLine
           /\ faults' =
                { "read past the end of params" :
                    x \in { k \in SlotsRead(actions0, params) : k \notin DOMAIN params } }
                \cup
                { "store past the end of result" :
                    x \in { k \in {numParams} :
                              m_usingManualParams /\ CellsStored(line) > numParams } }
    /\ raw' = actions0
    /\ pc' = "running"
    /\ episode' = episode + 1
    /\ lastCall' = [op |-> "onSetup", dt |-> 0, threw |-> FALSE]
    /\ cmds' = SetupCmds
    /\ lockEvals' = <<>>
    /\ subjectCOM' = NotRead
    /\ muscles' = NoMuscles
    /\ adapter' = SetupAdapterCalls
    /\ UNCHANGED <<m_usingManualParams, m_axis, m_totalTime, m_bBadRun,
                   m_bRecordedStart, bottomCounter, topCounter, m_bBottomPaused,
                   m_bTopPaused, maxCount, initPosition, run>>

\* ------------------------------------------------------------- onStep
\* (mutant) dt = 0 accepted
DtRejected_Negative(dt) == dt < 0

\* if (dt <= 0.0) throw std::invalid_argument
DtRejected(dt) == dt <= 0

\* if (m_totalTime < 3), m_totalTime already advanced
InWarmup(t) == t < WarmupTime

SetLock(L) ==
    /\ bottomCounter' = L.bottomCounter
    /\ topCounter' = L.topCounter
    /\ m_bBottomPaused' = L.m_bBottomPaused
    /\ m_bTopPaused' = L.m_bTopPaused
    /\ maxCount' = L.maxCount

\* (mutant) the parameters are requested again on every tick
StepAdapterCalls_Again == <<AdapterCall("step", <<>>)>>

\* onStep makes no call on the learning adapter
StepAdapterCalls == <<>>

\* (mutant) the motors are stepped during warmup too
WarmupCmds_Moves(locked) ==
    (IF locked
     THEN <<Cmd("setPreferredLengthActual", "prism", 0, 0, NoWave)>>
     ELSE <<>>) \o MoveMotors

\* if (isLocked(subject, false)) bottom->setPreferredLength(bottom->getActualLength()); return
WarmupCmds(locked) ==
    IF locked
    THEN <<Cmd("setPreferredLengthActual", "prism", 0, 0, NoWave)>>
    ELSE <<>>

\* (mutant) the start position follows the subject on every ACTIVE tick
RecordsStart_Always(recorded) == TRUE

\* else if (!m_bRecordedStart)
RecordsStart(recorded) == ~recorded

OnStepThrows(dt) ==
    /\ lastCall' = [op |-> "onStep", dt |-> dt, threw |-> TRUE]
    /\ cmds' = <<>>
    /\ lockEvals' = <<>>
    /\ subjectCOM' = NotRead
    /\ adapter' = <<>>
    /\ UNCHANGED <<ctrl, run>>

OnStepWarmup(dt, topTouch, bottomTouch) ==
    LET r == IsLocked(LockState, FALSE, topTouch, bottomTouch)
        o == Observe(run[FALSE], r.eval)
    IN  /\ m_totalTime' = m_totalTime + dt
        /\ SetLock(r.lock)
        /\ lockEvals' = <<o.eval>>
        /\ run' = [run EXCEPT ![FALSE] = o.run]
        /\ cmds' = WarmupCmds(r.ret)
        /\ lastCall' = [op |-> "onStep", dt |-> dt, threw |-> FALSE]
        /\ subjectCOM' = NotRead
        /\ adapter' = StepAdapterCalls
        /\ UNCHANGED <<m_axis, m_bBadRun, m_bIgnoreTouchSensors, m_bRecordedStart,
                       m_dHistorisisSeconds, m_actions, amplitude,
                       angularFrequency, phaseChange, dcOffset, initPosition>>

OnStepActive(dt, coms, topTouch, bottomTouch) ==
    LET t == m_totalTime + dt
        P == SetPrismaticLengths(t, topTouch, bottomTouch)
    IN  /\ m_totalTime' = t
        \* else if (!m_bRecordedStart): initPosition = subject.getCOM();
        \* the subject's centre of mass is read again by displacement(subject),
        \* whose result the tick drops
        /\ \E com \in coms :
             /\ subjectCOM' = com
             /\ initPosition' = IF RecordsStart(m_bRecordedStart)
                                THEN com ELSE initPosition
        /\ m_bRecordedStart' = TRUE
        /\ SetLock(P.lock)
        /\ lockEvals' = P.evals
        /\ run' = P.run
        /\ cmds' = SetPreferredMuscleLengths(t) \o P.cmds \o MoveMotors
        /\ lastCall' = [op |-> "onStep", dt |-> dt, threw |-> FALSE]
        /\ adapter' = StepAdapterCalls
        /\ UNCHANGED <<m_axis, m_bBadRun, m_bIgnoreTouchSensors,
                       m_dHistorisisSeconds, m_actions, amplitude,
                       angularFrequency, phaseChange, dcOffset>>

OnStep(dt, coms, topTouch, bottomTouch) ==
    /\ pc = "running"
    /\ IF DtRejected(dt)
       THEN OnStepThrows(dt)
       ELSE /\ m_totalTime + dt <= MaxTime
            /\ IF InWarmup(m_totalTime + dt)
               THEN OnStepWarmup(dt, topTouch, bottomTouch)
               ELSE OnStepActive(dt, coms, topTouch, bottomTouch)
    /\ faults' = {}
    /\ muscles' = NoMuscles
    /\ UNCHANGED <<m_usingManualParams, pc, episode, raw, decoded, selectedLine>>

\* --------------------------------------------------------- onTeardown
\* final is subject.getCOM(), tmpStrings the muscles with their histories;
\* garbage is what initPosition holds when nothing was ever assigned to it
OnTeardown(final, garbage, tmpStrings) ==
    /\ pc = "running"
    /\ pc' = "idle"
    /\ LET old == IF initPosition = IndeterminatePosition
                  THEN garbage ELSE initPosition
           distance == Displacement(m_axis, old, final)
           energySpent == TotalEnergySpent(tmpStrings)
       IN  adapter' =
             <<AdapterCall("endEpisode", Scores(m_bBadRun, distance, energySpent))>>
    /\ subjectCOM' = final
    /\ muscles' = tmpStrings
    /\ m_totalTime' = 0
    /\ m_bRecordedStart' = FALSE
    /\ m_bBadRun' = FALSE
    \* delete amplitude; delete angularFrequency; delete phaseChange; delete dcOffset
    /\ amplitude' = FreshTable
    /\ angularFrequency' = FreshTable
    /\ phaseChange' = FreshTable
    /\ dcOffset' = FreshTable
    /\ lastCall' = [op |-> "onTeardown", dt |-> 0, threw |-> FALSE]
    /\ cmds' = <<>>
    /\ lockEvals' = <<>>
    /\ faults' = {}
    /\ UNCHANGED <<m_usingManualParams, m_axis, episode, m_bIgnoreTouchSensors,
                   bottomCounter, topCounter, m_dHistorisisSeconds,
                   m_bBottomPaused, m_bTopPaused, maxCount, m_actions,
                   initPosition, raw, decoded, selectedLine, run>>

\* ------------------------------------------------------ specification
\* what a read of slot k of params yields: the entry, or anything past the end
ReadOf(params, k) == IF k \in DOMAIN params THEN {0} ELSE PastEnd

\* onSetup on an optimizer vector of raws and, with manual parameters, a
\* line of lines tweaked by seeds
SetupOn(raws, lines, seeds) ==
    \E actions0 \in raws :
      \E line \in (IF m_usingManualParams THEN lines ELSE {LineOf(0, 0, 0)}) :
        \E k \in (IF m_usingManualParams THEN seeds ELSE {50}) :
          LET params == IF m_usingManualParams
                        THEN ReadManualParams(line, SeedsOf(k))
                        ELSE actions0
              flags == HasFlags(params)
          IN  \E g1 \in (IF flags THEN ReadOf(params, TouchSlot(actions0, params)) ELSE {0}) :
                \E g2 \in (IF flags THEN ReadOf(params, HistorisisSlot(params)) ELSE {0}) :
                  OnSetup(actions0, line, SeedsOf(k), g1, g2)

\* onStep on the centre of mass being in coms
StepOn(coms) ==
    \E dt \in DtValues :
      \E topTouch \in SensorReadings, bottomTouch \in SensorReadings :
        OnStep(dt, coms, topTouch, bottomTouch)

\* The episode life cycle, parameters from the optimizer.
InitLife == Init /\ ~m_usingManualParams /\ m_axis = 1

Setup == SetupOn(Raws({"ramp"}, HistorisisEntries), {LineOf(0, 0, 0)}, {50})

Step == StepOn({Origin})

Teardown == OnTeardown(Origin, Origin, NoMuscles)

Next == Setup \/ Step \/ Teardown

Spec == InitLife /\ [][Next]_vars

\* The decoder on its own: onSetup and onTeardown on optimizer vectors of
\* every pattern and on manual parameter lines.
SetupDecode ==
    SetupOn(Raws({"zeros", "ones", "ramp"}, HistorisisEntries),
            {LineOf(0, 0, 0), LineOf(numParams, Unit, 5), LineOf(numParams + 1, 0, 5)},
            {0, 50, 99})

NextDecode == SetupDecode \/ Teardown

InitDecode == Init /\ m_axis = 1

SpecDecode == InitDecode /\ [][NextDecode]_vars

\* Scoring: episodes on one 16-entry vector (touch sensors ignored), the
\* subject moving between ticks, torn down with every final position and
\* every set of actuator histories, for every axis.
InitScore == Init /\ ~m_usingManualParams

SetupScore ==
    SetupOn({RawVector(nActions * N_PARAMS, "ramp", 0, 0)}, {LineOf(0, 0, 0)}, {50})

NoTouch == [i \in 0..(MaxSensors - 1) |-> FALSE]

StepScore ==
    \E dt \in DtValues : OnStep(dt, Positions, NoTouch, NoTouch)

TeardownScore ==
    \E final \in Positions, garbage \in Positions, tmpStrings \in MuscleHistories :
      OnTeardown(final,
                 IF initPosition = IndeterminatePosition THEN garbage ELSE Origin,
                 tmpStrings)

NextScore == SetupScore \/ StepScore \/ TeardownScore

SpecScore == InitScore /\ [][NextScore]_vars

\* ------------------------------------------------------------- claims
Joints == BOOLEAN   \* isTop

Paused(isTop) == IF isTop THEN m_bTopPaused ELSE m_bBottomPaused

\* the last call was an onStep that ran (dt > 0)
Ticked == lastCall.op = "onStep" /\ ~lastCall.threw
WarmupTick == Ticked /\ m_totalTime < WarmupTime
ActiveTick == Ticked /\ m_totalTime >= WarmupTime

Evals == { lockEvals[k] : k \in 1..Len(lockEvals) }
Commands == { cmds[k] : k \in 1..Len(cmds) }

\* C1 as stated: from UNPAUSED with counter 0 and N = hysteresisSeconds*1000,
\* under a pause signal true on every evaluation the joint is UNPAUSED after
\* evaluations 1..N, PAUSED after evaluation N+1, and UNPAUSED again after
\* evaluation 2(N+1). (Stated for the episodes in which the threshold that
\* isLocked compares against is this N.)
C1_Original ==
    \A j \in Joints :
      LET N == m_dHistorisisSeconds * TickRate
          n == run[j].n
      IN  (maxCount.set /\ maxCount.val = N) =>
            /\ (n >= 1 /\ n * Unit <= N) => ~Paused(j)
            /\ (n * Unit = N + Unit) => Paused(j)
            /\ (n * Unit = 2 * (N + Unit)) => ~Paused(j)

\* C1 amended: with N >= 0 the threshold isLocked latched at its first
\* evaluation, under a pause signal true on every evaluation the joint is
\* UNPAUSED after evaluations 1..N and PAUSED after the first evaluation whose
\* number exceeds N; it toggles back to UNPAUSED only by the unpause signal:
\* when that signal too is true on every further evaluation, on the first
\* further evaluation whose number exceeds N and not before, and when that
\* signal is never true the joint stays PAUSED.
C1_Amended ==
    \A j \in Joints :
      LET N == maxCount.val
          g == run[j]
      IN  (g.n >= 1 /\ N >= 0) =>
            /\ g.n * Unit <= N => ~Paused(j)
            /\ (g.n * Unit > N /\ (g.n - 1) * Unit <= N) => Paused(j)
            /\ (g.v >= 1 /\ g.u = g.v /\ g.v * Unit <= N) => Paused(j)
            /\ (g.v >= 1 /\ g.u = g.v /\ g.v * Unit > N /\ (g.v - 1) * Unit <= N)
                 => ~Paused(j)
            /\ (g.v >= 1 /\ g.u = 0) => Paused(j)

\* a joint paused on evaluation 2 (N = 1) and toggled back on the 2nd further
\* evaluation, both signals true throughout
C1_Witness ==
    \E j \in Joints :
      /\ maxCount.val = Unit
      /\ run[j].n = 4 /\ run[j].v = 2 /\ run[j].u = 2
      /\ ~Paused(j)

\* C2 as stated: after onTeardown all per-episode state is at its initial
\* value: elapsed time 0, both joints UNPAUSED with counter 0, start position
\* not recorded, bad-run flag false.
C2_Claim ==
    lastCall.op = "onTeardown" =>
      /\ m_totalTime = 0
      /\ ~m_bBottomPaused /\ ~m_bTopPaused
      /\ bottomCounter = 0 /\ topCounter = 0
      /\ ~m_bRecordedStart
      /\ ~m_bBadRun

\* C3: an onStep with dt <= 0 throws and changes nothing of the controller:
\* elapsed time, lock state and start position are as before, no lock machine
\* is evaluated and no command is dispatched.
C3_Theorem ==
    [][(lastCall'.op = "onStep" /\ lastCall'.dt <= 0)
         => /\ lastCall'.threw
            /\ UNCHANGED ctrl
            /\ lockEvals' = <<>>
            /\ cmds' = <<>>]_vars

\* a rejected onStep in the ACTIVE phase of an episode
C3_Witness ==
    /\ lastCall.op = "onStep" /\ lastCall.threw /\ lastCall.dt <= 0
    /\ m_totalTime >= WarmupTime
    /\ m_bRecordedStart

\* the prism was sent a sine-derived target length by the last call
HasTarget(prism) ==
    \E c \in Commands : c.op = "setPreferredLength" /\ c.target = prism

\* C4 as stated: on an ACTIVE tick a joint receives a new target length iff
\* sensors are ignored or the joint's maintained isPaused state is false.
C4_Claim ==
    ActiveTick =>
      \A prism \in 0..(nPrisms - 1) :
        HasTarget(prism) <=> (m_bIgnoreTouchSensors \/ ~Paused(IsTopPrism(prism)))

\* the commands that carry a sine-derived target
SineCommands == { c \in Commands : c.op \in {"control", "setPreferredLength"} }

\* the channel the claim assigns: cluster c to c, joint k to nClusters + k
ChannelOf(c) == IF c.kind = "muscle" THEN c.target ELSE nClusters + c.target

\* C5 as stated: cluster c is driven by the channel decoded from raw slots
\* 4c..4c+3 and joint k by the one decoded from slots 4(nClusters+k)..+3, so
\* no two of them share a channel and every decoded channel drives something.
C5_Claim ==
    (ActiveTick /\ m_bIgnoreTouchSensors /\ ~m_usingManualParams) =>
      /\ \A c \in SineCommands :
           /\ c.wave.idx = ChannelOf(c)
           /\ c.wave.amplitude = Scale(raw[ChannelSlot(ChannelOf(c), 0)], 0)
           /\ c.wave.angularFrequency = Scale(raw[ChannelSlot(ChannelOf(c), 1)], 1)
           /\ c.wave.dcOffset = Scale(raw[ChannelSlot(ChannelOf(c), 3)], 3)
      /\ \A c, d \in SineCommands : c.wave.idx = d.wave.idx => c = d
      /\ { c.wave.idx : c \in SineCommands } = 0..(nActions - 1)

RECURSIVE PhaseSum(_)
PhaseSum(channels) ==
    IF channels = <<>> THEN 0
    ELSE phaseChange[Head(channels)] + PhaseSum(Tail(channels))

\* the channels evaluated before cluster c, and before joint p, in their loops
ClustersBefore(c) == [k \in 1..c |-> k - 1]
JointsBefore(p) == [k \in 1..p |-> PrismIdx(k - 1)]

\* C6 as stated: one running accumulator over clusters then joints, so the
\* phase used for a joint includes the phaseChange of every cluster.
C6_Original ==
    ActiveTick =>
      \A c \in SineCommands :
        c.wave.phase =
          IF c.kind = "muscle"
          THEN PhaseSum(ClustersBefore(c.target))
          ELSE PhaseSum(ClustersBefore(nClusters) \o JointsBefore(c.target))

\* C6 amended: the clusters and the joints each have their own accumulator,
\* started at 0: the phase used for a cluster is the sum of phaseChange of the
\* clusters before it, the phase used for a joint is the sum of phaseChange of
\* the channels of the joints before it (0 for the first joint), whether or not
\* those joints were sent a target.
C6_Amended ==
    ActiveTick =>
      \A c \in SineCommands :
        c.wave.phase =
          IF c.kind = "muscle"
          THEN PhaseSum(ClustersBefore(c.target))
          ELSE PhaseSum(JointsBefore(c.target))

\* the top joint driven with a phase that is not 0 on a tick on which the
\* bottom joint was locked and sent nothing
C6_Witness ==
    /\ ActiveTick
    /\ ~HasTarget(0)
    /\ \E c \in SineCommands :
         c.kind = "prism" /\ c.target = 1 /\ c.wave.phase # 0
    /\ PhaseSum(ClustersBefore(nClusters)) # 0

\* the joints of the last call's isLocked evaluations, in order
EvalJoints == [k \in 1..Len(lockEvals) |-> lockEvals[k].isTop]

\* C7 as stated: on every tick with dt > 0 the lock machine is evaluated
\* exactly once for the bottom and once for the top joint.
C7_Original ==
    Ticked =>
      \A j \in Joints : Cardinality({ k \in 1..Len(lockEvals) : EvalJoints[k] = j }) = 1

\* C7 amended: on a WARMUP tick the lock machine is evaluated exactly once,
\* for the bottom joint only; on an ACTIVE tick it is evaluated exactly once
\* for each joint, bottom then top, when touch sensors are not ignored, and
\* not at all when they are ignored.
C7_Amended ==
    /\ WarmupTick => EvalJoints = <<FALSE>>
    /\ (ActiveTick /\ ~m_bIgnoreTouchSensors) => EvalJoints = <<FALSE, TRUE>>
    /\ (ActiveTick /\ m_bIgnoreTouchSensors) => EvalJoints = <<>>

C7_Witness ==
    /\ ActiveTick /\ ~m_bIgnoreTouchSensors
    /\ Len(lockEvals) = 2 /\ lockEvals[2].isTop /\ lockEvals[2].fires

\* C8 as stated: a transition commits only after the condition has held on
\* more than hysteresisSeconds*1000 consecutive evaluations. (Stated for the
\* episodes in which the threshold isLocked compares against is that number.)
C8_Original ==
    (maxCount.set /\ maxCount.val = m_dHistorisisSeconds * TickRate) =>
      \A e \in Evals : e.fires => e.streak * Unit > maxCount.val

\* C8 amended: a transition (in either direction) commits only on an
\* evaluation with the pause signal true, and only once the evaluations on
\* which the counting condition held since the joint's last transition (or
\* construction), consecutive or not, number more than the threshold isLocked
\* latched at its first evaluation: an interruption leaves the count as it is.
C8_Amended ==
    \A e \in Evals : e.fires => (e.sPause /\ e.held * Unit > maxCount.val)

\* a transition committed on an interrupted count (N = 1)
C8_Witness ==
    \E e \in Evals :
      e.fires /\ e.streak < e.held /\ maxCount.val = Unit /\ e.held = 2

\* C9: onSetup on an optimizer vector of length exactly 4*nActions with
\* entries in [0,1] decodes every channel value as raw*(max-min)+min, within
\* [min, max], and leaves ignoreSensors and hysteresisSeconds as they were.
C9_Theorem ==
    [][(/\ episode' = episode + 1
        /\ ~m_usingManualParams
        /\ Size(raw') = nActions * N_PARAMS
        /\ \A k \in DOMAIN raw' : raw'[k] >= 0 /\ raw'[k] <= Unit)
         => /\ \A i \in 0..(nActions - 1), j \in 0..(N_PARAMS - 1) :
                 /\ m_actions'[i][j] =
                      raw'[i * N_PARAMS + j] * (maxes[j] - mins[j]) + mins[j] * Unit
                 /\ m_actions'[i][j] >= mins[j] * Unit
                 /\ m_actions'[i][j] <= maxes[j] * Unit
            /\ UNCHANGED <<m_bIgnoreTouchSensors, m_dHistorisisSeconds>>]_vars

\* a second episode decoded from an all-ones vector of length 4*nActions, the
\* flags still as the first episode's vector set them
C9_Witness ==
    /\ lastCall.op = "onSetup" /\ episode = 2 /\ ~m_usingManualParams
    /\ Size(raw) = nActions * N_PARAMS
    /\ ~m_bIgnoreTouchSensors /\ m_dHistorisisSeconds = 10
    /\ m_actions[0][1] = maxes[1] * Unit

Prefix(v, n) == [k \in 0..(n - 1) |-> v[k]]

Reported ==
    SelectSeq([k \in 1..Len(adapter) |-> adapter[k]], LAMBDA c : c.op = "endEpisode")

\* C11: every onTeardown reports exactly one score vector, of exactly two
\* elements; its first element is the displacement computed from the start
\* position and the subject's final position when the bad-run flag is not
\* set, and the sentinel -1 whatever the computed displacement when it is
\* set; no other call reports scores.
C11_Theorem ==
    [][/\ lastCall'.op = "onTeardown" =>
            /\ Len(Reported') = 1
            /\ Len(Reported'[1].scores) = 2
            /\ (~m_bBadRun /\ initPosition # IndeterminatePosition) =>
                 Reported'[1].scores[1] = Displacement(m_axis, initPosition, subjectCOM')
            /\ m_bBadRun => Reported'[1].scores[1] = (-1) * Milli
            /\ \A d \in {Reported'[1].scores[1], 0, 7 * Milli}, e \in {0, -4} :
                 /\ Scores(TRUE, d, e) = <<(-1) * Milli, e>>
                 /\ Scores(FALSE, d, e) = <<d, e>>
       /\ lastCall'.op # "onTeardown" => Len(Reported') = 0]_vars

\* a teardown that reported a displacement other than the sentinel and an
\* energy other than 0
C11_Witness ==
    /\ lastCall.op = "onTeardown"
    /\ Len(Reported) = 1
    /\ Reported[1].scores[1] = 5 * Milli
    /\ Reported[1].scores[2] < 0

\* the (actuator, history index j >= 1) pairs of the histories teardown read
Samples ==
    { <<i, j>> \in (DOMAIN muscles) \X (1..MaxHist) :
        j < Size(muscles[i].tensionHistory) }

RestDelta(x) == muscles[x[1]].restLengths[x[2]] - muscles[x[1]].restLengths[x[2] - 1]

Contribution(x) ==
    muscles[x[1]].tensionHistory[x[2] - 1] * (IF RestDelta(x) < 0 THEN RestDelta(x) ELSE 0)

RECURSIVE SumOver(_)
SumOver(S) ==
    IF S = {} THEN 0
    ELSE LET x == CHOOSE y \in S : TRUE
         IN  Contribution(x) + SumOver(S \ {x})

\* C12: the energy reported at teardown is the sum, over every actuator and
\* every history index j >= 1, of tension[j-1] * min(0, restLength[j] -
\* restLength[j-1]); a sample whose rest length grew or stayed contributes 0,
\* every contribution is nonpositive (tensions being nonnegative), and the
\* sum is exactly 0 when no rest-length delta is negative.
C12_Theorem ==
    lastCall.op = "onTeardown" =>
      LET energySpent == Reported[1].scores[2]
      IN  /\ energySpent = SumOver(Samples)
          /\ \A x \in Samples :
               /\ RestDelta(x) >= 0 => Contribution(x) = 0
               /\ Contribution(x) <= 0
          /\ energySpent <= 0
          /\ (\A x \in Samples : RestDelta(x) >= 0) => energySpent = 0

\* two actuators, one shrinking under tension and one growing, summed
C12_Witness ==
    /\ lastCall.op = "onTeardown"
    /\ Size(muscles) = 2
    /\ \E x \in Samples : RestDelta(x) > 0 /\ muscles[x[1]].tensionHistory[x[2] - 1] > 0
    /\ \E x \in Samples : Contribution(x) < 0
    /\ Reported[1].scores[2] = -6

\* C13: at the teardown of an episode whose start position was recorded, the
\* reported displacement is |finalX - startX| for axis 0, |finalZ - startZ|
\* for axis 2, the 3-D Euclidean distance (rounded down to 1/Milli) for axis
\* 3, and the signed finalY - startY for axis 1 and for any other axis;
\* start (0,0,0), final (0,5,0), axis 1 reports 5.
C13_Theorem ==
    [][(lastCall'.op = "onTeardown" /\ m_bRecordedStart /\ ~m_bBadRun) =>
         LET d == Reported'[1].scores[1]
             dx == subjectCOM'[1] - initPosition[1]
             dy == subjectCOM'[2] - initPosition[2]
             dz == subjectCOM'[3] - initPosition[3]
             sq == dx * dx + dy * dy + dz * dz
         IN  /\ m_axis = 0 => d = (IF dx < 0 THEN -dx ELSE dx)
             /\ m_axis = 2 => d = (IF dz < 0 THEN -dz ELSE dz)
             /\ m_axis = 3 => (d >= 0 /\ d * d <= sq /\ (d + 1) * (d + 1) > sq)
             /\ m_axis \notin {0, 2, 3} => d = dy
             /\ (m_axis = 1 /\ initPosition = <<0, 0, 0>>
                 /\ subjectCOM' = <<0, 5 * Milli, 0>>) => d = 5 * Milli]_vars

\* an unrecognized axis reporting a negative displacement along y
C13_Witness ==
    /\ lastCall.op = "onTeardown" /\ episode = 1
    /\ m_axis = 7
    /\ initPosition = <<0, 5 * Milli, 0>>
    /\ subjectCOM = <<3 * Milli, 0, (-4) * Milli>>
    /\ Reported[1].scores[1] = (-5) * Milli

\* C16: within an episode the start position is recorded exactly once, on the
\* first tick at which elapsed time is >= 3, as the subject's centre of mass
\* on that tick; no WARMUP tick and no later ACTIVE tick of the episode
\* changes it, and the displacement reported at the episode's teardown is
\* measured from it.
C16_Theorem ==
    [][/\ (lastCall'.op = "onStep" /\ ~lastCall'.threw) =>
            /\ (m_totalTime < WarmupTime /\ m_totalTime' >= WarmupTime) =>
                 (~m_bRecordedStart /\ m_bRecordedStart' /\ initPosition' = subjectCOM')
            /\ m_totalTime' < WarmupTime =>
                 (~m_bRecordedStart' /\ initPosition' = initPosition)
            /\ m_totalTime >= WarmupTime =>
                 (m_bRecordedStart /\ m_bRecordedStart' /\ initPosition' = initPosition)
       /\ (lastCall'.op = "onStep" /\ lastCall'.threw) => initPosition' = initPosition
       /\ (lastCall'.op = "onTeardown" /\ m_bRecordedStart) =>
            /\ initPosition' = initPosition
            /\ Reported'[1].scores[1] = Displacement(m_axis, initPosition, subjectCOM')]_vars

\* a later ACTIVE tick that found the subject elsewhere and left the recorded
\* start as it was
C16_Witness ==
    /\ lastCall.op = "onStep" /\ ~lastCall.threw
    /\ m_totalTime = WarmupTime + 1 /\ lastCall.dt = 1
    /\ m_bRecordedStart
    /\ initPosition = <<0, 5 * Milli, 0>>
    /\ subjectCOM = Origin

\* ------------------------------------------- claims: manual parameters
\* C14 as stated: readManualParams returns exactly 4*nActions + 2 entries
\* for any line; the fields fill the leading slots in order and never more
\* than the vector holds; a slot no field filled holds the default 1.0; each
\* entry is then perturbed by at most 0.005.
C14_Claim ==
    (lastCall.op = "onSetup" /\ m_usingManualParams) =>
      /\ DOMAIN decoded = 0..(N_PARAMS * nActions + 1)
      /\ "store past the end of result" \notin faults
      /\ \A i \in DOMAIN decoded :
           LET filled == IF i < Size(selectedLine)
                         THEN (IF selectedLine[i].ok THEN selectedLine[i].val ELSE 0)
                         ELSE Unit
           IN  /\ decoded[i] - filled <= Unit \div 200
               /\ filled - decoded[i] <= Unit \div 200

\* ------------------------------------------------ claims: life cycle
\* C15: on a WARMUP tick no cluster actuator is sent a target, no joint is
\* sent a sine-derived target and nothing is motor-stepped; the one command
\* there can be clamps the joint that the tick's lock evaluation returned
\* locked (the bottom joint) to its actual length.
C15_Theorem ==
    WarmupTick =>
      /\ \A c \in Commands :
           /\ c.op \notin {"control", "setPreferredLength", "moveMotors", "setControlInput"}
           /\ c.op = "setPreferredLengthActual" /\ c.kind = "prism"
           /\ Len(lockEvals) = 1
           /\ lockEvals[1].ret
           /\ IsTopPrism(c.target) = lockEvals[1].isTop
      /\ Len(cmds) <= 1
      /\ (Len(lockEvals) = 1 /\ lockEvals[1].ret) <=> Len(cmds) = 1

\* a WARMUP tick that clamped the bottom joint
C15_Witness ==
    /\ WarmupTick
    /\ Len(cmds) = 1 /\ cmds[1].op = "setPreferredLengthActual" /\ cmds[1].target = 0
    /\ m_bBottomPaused

\* the requests for a parameter vector the last call made on the adapter
Requests ==
    SelectSeq([k \in 1..Len(adapter) |-> adapter[k]], LAMBDA c : c.op = "step")

\* C17: onSetup requests the parameter vector from the optimizer exactly
\* once and decodes it; no onStep and no onTeardown requests one, and every
\* onStep leaves the channel table, the ignoreSensors flag, hysteresisSeconds
\* and the decoded actions as they were.
C17_Theorem ==
    [][/\ lastCall'.op = "onSetup" =>
            (Len(Requests') = 1 /\ m_actions' = NewActions(decoded'))
       /\ lastCall'.op # "onSetup" => Len(Requests') = 0
       /\ lastCall'.op = "onStep" =>
            UNCHANGED <<amplitude, angularFrequency, phaseChange, dcOffset,
                        m_bIgnoreTouchSensors, m_dHistorisisSeconds, m_actions,
                        raw, decoded>>]_vars

\* an ACTIVE tick of a second episode, sensors enabled by that episode's
\* vector, on which a joint's lock state changed
C17_Witness ==
    /\ ActiveTick /\ episode = 2
    /\ ~m_bIgnoreTouchSensors /\ m_dHistorisisSeconds = 10
    /\ \E e \in Evals : e.fires
    /\ amplitude[0] = Scale(raw[0], 0) /\ dcOffset[nClusters] = Scale(raw[ChannelSlot(nClusters, 3)], 3)

\* -------------------------------------------------- claims: isLocked
\* an evaluation's joint: its paused flag and counter on entry and on return
P0(e) == IF e.isTop THEN e.before.m_bTopPaused ELSE e.before.m_bBottomPaused
P1(e) == IF e.isTop THEN e.after.m_bTopPaused ELSE e.after.m_bBottomPaused
K0(e) == IF e.isTop THEN e.before.topCounter ELSE e.before.bottomCounter
K1(e) == IF e.isTop THEN e.after.topCounter ELSE e.after.bottomCounter

\* (pauseSignal and not isPaused) or (unpauseSignal and isPaused), on entry
CountsOn(e) == (e.sPause /\ ~P0(e)) \/ (e.sUnPause /\ P0(e))

\* C18: on each evaluation of a joint's lock machine the joint's counter is
\* 0 on return when the joint's state changed on that evaluation; otherwise
\* it is the counter on entry plus 1 when (pauseSignal and not isPaused) or
\* (unpauseSignal and isPaused) held on entry, and the counter on entry when
\* it did not.
C18_Theorem ==
    \A e \in Evals :
      K1(e) = IF P1(e) # P0(e) THEN 0
              ELSE IF CountsOn(e) THEN K0(e) + 1
              ELSE K0(e)

\* a PAUSED joint toggled back on an evaluation that did not count, its
\* counter reset from above the threshold
C18_Witness ==
    \E e \in Evals :
      /\ P0(e) /\ ~P1(e) /\ ~CountsOn(e)
      /\ K0(e) >= 1 /\ K1(e) = 0

\* C19: a joint's isPaused state changes on an evaluation only if pauseSignal
\* is true on it and the joint's counter, as incremented on it, exceeds the
\* threshold isLocked holds; with pauseSignal false the state stays and the
\* result is false; the result is true only on an evaluation that moves the
\* joint from UNPAUSED to PAUSED.
C19_Theorem ==
    \A e \in Evals :
      LET counter == K0(e) + (IF CountsOn(e) THEN 1 ELSE 0)
      IN  /\ P1(e) # P0(e) =>
               (e.sPause /\ counter * Unit > e.after.maxCount.val)
          /\ ~e.sPause => (P1(e) = P0(e) /\ ~e.ret)
          /\ e.ret => (~P0(e) /\ P1(e))

\* a PAUSED joint moved back to UNPAUSED, the result being false, in a call
\* that also left a joint alone for want of the pause signal
C19_Witness ==
    /\ \E e \in Evals : P0(e) /\ ~P1(e) /\ ~e.ret /\ e.sPause
    /\ \E e \in Evals : ~e.sPause /\ K0(e) * Unit > e.after.maxCount.val

\* C20: an evaluation for the top joint leaves bottomCounter and the bottom
\* paused flag as they were, and an evaluation for the bottom joint leaves
\* topCounter and the top paused flag as they were.
C20_Theorem ==
    \A e \in Evals :
      /\ e.isTop =>
           /\ e.after.bottomCounter = e.before.bottomCounter
           /\ e.after.m_bBottomPaused = e.before.m_bBottomPaused
      /\ ~e.isTop =>
           /\ e.after.topCounter = e.before.topCounter
           /\ e.after.m_bTopPaused = e.before.m_bTopPaused

\* the top joint's state changed while the bottom joint, PAUSED with a
\* counter above 0, stayed as it was
C20_Witness ==
    \E e \in Evals :
      /\ e.isTop /\ e.after.m_bTopPaused # e.before.m_bTopPaused
      /\ e.before.m_bBottomPaused /\ e.before.bottomCounter >= 1
      /\ e.after.topCounter # e.after.bottomCounter

\* C21 as stated: in every episode the threshold the lock machine compares
\* the counter against is 1000 times the hysteresisSeconds in effect since
\* that episode's setup.
C21_Claim ==
    \A e \in Evals : e.after.maxCount.val = m_dHistorisisSeconds * TickRate

\* ----------------------------------------------- claims: slots, time
\* C22 as stated: whatever the length L >= 4*nActions of the optimizer's
\* vector, every slot transformActions reads (channel slots, sensor-flag
\* slot, hysteresis slot) lies within 0..L-1.
C22_Claim ==
    (lastCall.op = "onSetup" /\ ~m_usingManualParams
     /\ Size(raw) >= N_PARAMS * nActions) =>
      /\ \A k \in SlotsRead(raw, decoded) : 0 <= k /\ k <= Size(raw) - 1
      /\ "read past the end of params" \notin faults

\* C23: elapsed time is never negative; a successful onStep strictly
\* increases it, a rejected onStep and onSetup leave it as it is, so it never
\* decreases before teardown; once elapsed time is >= 3 (a tick has run as
\* ACTIVE and recorded the start) every later tick of the episode runs as
\* ACTIVE.
C23_Theorem ==
    [][/\ m_totalTime >= 0 /\ m_totalTime' >= 0
       /\ (lastCall'.op = "onStep" /\ ~lastCall'.threw) =>
            /\ m_totalTime' > m_totalTime
            /\ (m_totalTime >= WarmupTime \/ m_bRecordedStart) =>
                 (m_totalTime' >= WarmupTime /\ Len(cmds') > 1 /\ m_bRecordedStart')
       /\ (lastCall'.op = "onStep" /\ lastCall'.threw) => m_totalTime' = m_totalTime
       /\ lastCall'.op = "onSetup" => (m_totalTime' = m_totalTime /\ m_totalTime = 0)
       /\ m_totalTime' < m_totalTime => lastCall'.op = "onTeardown"]_vars

\* a second ACTIVE tick in a second episode
C23_Witness ==
    /\ ActiveTick /\ episode = 2
    /\ lastCall.dt = 1 /\ m_totalTime = WarmupTime + 1
    /\ \E c \in Commands : c.op = "moveMotors"

====
